---- MODULE Spec2Model ----
(***************************************************************************)
(* Uptime monitoring: the worker's lease scheduler (app/workers/runner.py), *)
(* the incident state machine it drives, and the availability accounting   *)
(* (app/services/metrics.py), over a store with row locks.                 *)
(*                                                                         *)
(* Time is in whole seconds.  A store transaction is modelled by the steps *)
(* at which it takes row locks and the step at which it commits; between   *)
(* them other transactions see the last committed rows and the locks.      *)
(***************************************************************************)
EXTENDS Integers, Sequences, FiniteSets, TLC

\* ------------------------------------------------------------------ bounds
Workers == {"w1", "w2"}
Targets == {"t1", "t2"}
\* The wall clock runs from 0 to MaxTime.
MaxTime == 1
\* At most MaxProbes probes return a result in a run, and at most MaxCrashes
\* workers are killed.
MaxProbes == 2
MaxCrashes == 1
\* At most MaxStoreFailures workers have ended on a store failure.
MaxStoreFailures == 1

\* ------------------------------------------------- settings (config.py)
\* Settings are read from the environment; the values here are admissible
\* ones (each field's constraint is ge=1 / gt=0), chosen small.
checker_concurrency == 1
lease_timeout_sec == 1
fetch_batch_size == 2

\* Target.check_interval_sec of each target (a column set by the admin, >= 1).
check_interval_sec(t) == IF t = "t1" THEN 1 ELSE 2

NULL == -1
NoOwner == "null"
UP == "UP"
DOWN == "DOWN"
Status == {UP, DOWN}

VARIABLES
    clock,      \* the wall clock, datetime.now(timezone.utc)
    targets,    \* table targets: id -> [exists, is_active]
    sched,      \* table scheduler_state, keyed by target_id (unique)
    rowLock,    \* FOR UPDATE row locks on scheduler_state: target -> holder
    incidents,  \* table incidents, in insertion order
    checks,     \* table check_results, in commit order
    notified,   \* AlertEvents handed to an AlertSender, in order
    pc,         \* each worker's position in run_forever
    wnow,       \* each worker's `now` of its current _acquire_jobs call
    missing,    \* each worker's targets found without a row at startup
    jobs,       \* each worker's list of leased jobs (targets), as returned
    task,       \* each worker's _run_job task per target
    mIn,        \* uptime_window: the call's inputs and the stored results
    mOut,       \* uptime_window: the returned record
    mRoute,     \* uptime_window: its caller, "none" before the call
    call,       \* Checker.check: the request, the position and the locals
    wire        \* Checker.check: its client.get and sleep calls, in order

workerVars == <<clock, targets, sched, rowLock, incidents, checks, notified,
                pc, wnow, missing, jobs, task>>
metricVars == <<mIn, mOut, mRoute>>
checkerVars == <<call, wire>>
vars == <<workerVars, metricVars, checkerVars>>

\* --------------------------------------------------------------- helpers
Range(s) == {s[i] : i \in DOMAIN s}
Min(a, b) == IF a <= b THEN a ELSE b

NoRow == [present |-> FALSE, next_run_at |-> 0,
          lease_owner |-> NoOwner, lease_expires_at |-> NULL]
NoTarget == [exists |-> FALSE, is_active |-> FALSE, deleted |-> FALSE]
\* A _run_job task: none (no job), waiting (for the semaphore), probing,
\* probed (Checker.check returned), persisting (inside the transaction, the
\* scheduler row locked), done (returned), failed (raised, "job failed").
NoTask ==
    [st |-> "none", status |-> DOWN, checked_at |-> NULL, found |-> FALSE]
DoneTask ==
    [st |-> "done", status |-> DOWN, checked_at |-> NULL, found |-> FALSE]
SkippedTask ==
    [st |-> "skipped", status |-> DOWN, checked_at |-> NULL, found |-> FALSE]
FailedTask ==
    [st |-> "failed", status |-> DOWN, checked_at |-> NULL, found |-> FALSE]

\* SchedulerState(target_id=target.id, next_run_at=now): lease columns null.
NewSchedulerState(now) ==
    [present |-> TRUE, next_run_at |-> now,
     lease_owner |-> NoOwner, lease_expires_at |-> NULL]

\* ------------------------------------------------- _ensure_scheduler_entries
MissingEntriesNoGuard(s, tg) == {t \in Targets : tg[t].exists}

\* The targets the scan finds without a scheduler_state row.
MissingEntries(s, tg) == {t \in Targets : tg[t].exists /\ ~s[t].present}

\* session.add(SchedulerState(...)) for each target of `miss`.
InsertEntries(s, miss, now) ==
    [t \in Targets |-> IF t \in miss THEN NewSchedulerState(now) ELSE s[t]]

\* ensure_entries run as one transaction with nothing in between: a row with
\* next_run_at = now for every target that has none, the others untouched.
EnsureEntries(s, tg, now) == InsertEntries(s, MissingEntries(s, tg), now)

\* ------------------------------------------------------------ _acquire_jobs
EligibleNeverReclaims(s, tg, t, now) ==
    /\ s[t].present
    /\ tg[t].exists
    /\ tg[t].is_active
    /\ s[t].next_run_at <= now
    /\ s[t].lease_expires_at = NULL

\* The WHERE clause of the lease query (the join keeps rows with a target).
Eligible(s, tg, t, now) ==
    /\ s[t].present
    /\ tg[t].exists
    /\ tg[t].is_active
    /\ s[t].next_run_at <= now
    /\ (s[t].lease_expires_at = NULL \/ s[t].lease_expires_at <= now)

AvailableIgnoringLocks(w) ==
    {t \in Targets : Eligible(sched, targets, t, wnow[w])}

\* FOR UPDATE ... SKIP LOCKED: eligible rows no other transaction has locked.
Available(w) ==
    {t \in Targets : Eligible(sched, targets, t, wnow[w])
                     /\ rowLock[t] \in {"none", w}}

\* Sequences of distinct targets of length n.
DistinctSeqs(S, n) ==
    {q \in [1..n -> S] : \A i, j \in 1..n : i # j => q[i] # q[j]}

SelectRowsUnordered(avail, limit) ==
    DistinctSeqs(avail, Min(limit, Cardinality(avail)))

\* ORDER BY next_run_at LIMIT limit over the available rows: every result the
\* store may return (ties in next_run_at are returned in any order).
SelectRows(avail, limit) ==
    LET n == Min(limit, Cardinality(avail))
    IN {q \in DistinctSeqs(avail, n) :
            /\ \A i \in 1..(n - 1) :
                   sched[q[i]].next_run_at <= sched[q[i + 1]].next_run_at
            /\ \A t \in avail \ Range(q) : \A i \in 1..n :
                   sched[q[i]].next_run_at <= sched[t].next_run_at}

LeasedAndRescheduled(row, w, now) ==
    [row EXCEPT !.lease_owner = w,
                !.lease_expires_at = now + lease_timeout_sec,
                !.next_run_at = now]

\* state.lease_owner = worker_id; state.lease_expires_at = now + lease_timeout.
Leased(row, w, now) ==
    [row EXCEPT !.lease_owner = w,
                !.lease_expires_at = now + lease_timeout_sec]

\* ------------------------------------------------------------ incident table
NoIncident == 0
\* uq_incidents_open: unique (target_id) WHERE NOT resolved.
OpenIds(incs, t) ==
    {i \in DOMAIN incs : incs[i].target_id = t /\ ~incs[i].resolved}

UniqueOpenViolated(incs) ==
    \E t \in Targets : Cardinality(OpenIds(incs, t)) > 1

\* The open-incident lookup of _update_incident (0 when there is none).
OpenIncident(incs, t) ==
    IF OpenIds(incs, t) = {} THEN NoIncident
    ELSE CHOOSE i \in OpenIds(incs, t) : TRUE

NewIncident(t, ts) ==
    [target_id |-> t, start_ts |-> ts, end_ts |-> NULL,
     last_status |-> DOWN, resolved |-> FALSE]

\* The flush of the session against the incidents table: rejected (an
\* IntegrityError) when the rows break uq_incidents_open.
Flushed(incs) == [ok |-> ~UniqueOpenViolated(incs), table |-> incs]

UpdateIncidentAlwaysInserts(incs, t, status, ts) ==
    LET o == OpenIncident(incs, t)
    IN IF status = DOWN
       THEN [ok |-> TRUE, table |-> Append(incs, NewIncident(t, ts))]
       ELSE IF o = NoIncident
            THEN Flushed(incs)
            ELSE Flushed([incs EXCEPT ![o].end_ts = ts,
                                      ![o].last_status = UP,
                                      ![o].resolved = TRUE])

UpdateIncidentRestartsOpen(incs, t, status, ts) ==
    LET o == OpenIncident(incs, t)
    IN IF status = DOWN
       THEN IF o = NoIncident
            THEN Flushed(Append(incs, NewIncident(t, ts)))
            ELSE Flushed([incs EXCEPT ![o].last_status = DOWN,
                                      ![o].start_ts = ts])
       ELSE IF o = NoIncident
            THEN Flushed(incs)
            ELSE Flushed([incs EXCEPT ![o].end_ts = ts,
                                      ![o].last_status = UP,
                                      ![o].resolved = TRUE])

UpdateIncidentNeverResolves(incs, t, status, ts) ==
    LET o == OpenIncident(incs, t)
    IN IF status = DOWN
       THEN IF o = NoIncident
            THEN Flushed(Append(incs, NewIncident(t, ts)))
            ELSE Flushed([incs EXCEPT ![o].last_status = DOWN])
       ELSE Flushed(incs)

\* _update_incident: the open-incident lookup, the insert or the update, and
\* their flush; [ok, table] is whether the store took them and the table then.
UpdateIncident(incs, t, status, ts) ==
    LET o == OpenIncident(incs, t)
    IN IF status = DOWN
       THEN IF o = NoIncident
            THEN Flushed(Append(incs, NewIncident(t, ts)))
            ELSE Flushed([incs EXCEPT ![o].last_status = DOWN])
       ELSE IF o = NoIncident
            THEN Flushed(incs)
            ELSE Flushed([incs EXCEPT ![o].end_ts = ts,
                                      ![o].last_status = UP,
                                      ![o].resolved = TRUE])

\* state.next_run_at = result.checked_at + target.check_interval_sec
NextRunFromPrevious(row, t, checked_at) ==
    row.next_run_at + check_interval_sec(t)

NextRunAt(row, t, checked_at) == checked_at + check_interval_sec(t)

\* The scheduler row as _persist_result leaves it.
Completed(row, t, checked_at) ==
    [row EXCEPT !.next_run_at = NextRunAt(row, t, checked_at),
                !.lease_owner = NoOwner,
                !.lease_expires_at = NULL]

\* ---------------------------------------------- MetricsService.uptime_window
\* A stored CheckResult of the target is [checked_at, status]; `stored` is the
\* set of them (here no two share a checked_at).  Seconds are whole numbers.
SecondsPerHour == 3600

\* window_start = now - timedelta(hours=window_hours)
WindowStart(now, window_hours) == now - window_hours * SecondsPerHour

\* The rows of S in ascending checked_at order.
RECURSIVE SortAsc(_)
SortAsc(S) ==
    IF S = {} THEN << >>
    ELSE LET m == CHOOSE x \in S : \A y \in S : x.checked_at <= y.checked_at
         IN <<m>> \o SortAsc(S \ {m})

\* WHERE checked_at < window_start ORDER BY checked_at DESC LIMIT 1
PreviousRows(stored, ws) == {r \in stored : r.checked_at < ws}
HasPrevious(stored, ws) == PreviousRows(stored, ws) # {}
Previous(stored, ws) ==
    CHOOSE r \in PreviousRows(stored, ws) :
        \A y \in PreviousRows(stored, ws) : y.checked_at <= r.checked_at

\* WHERE checked_at >= window_start ORDER BY checked_at ASC
WindowChecks(stored, ws) == SortAsc({r \in stored : r.checked_at >= ws})

\* The loop over checks[start_index:], from position i on; acc carries
\* current_status, current_ts, uptime_seconds and downtime_seconds.
RECURSIVE Accumulate(_, _, _)
Accumulate(cs, i, acc) ==
    IF i > Len(cs) THEN acc
    ELSE IF cs[i].checked_at < acc.ts THEN Accumulate(cs, i + 1, acc)
    ELSE LET delta == cs[i].checked_at - acc.ts
         IN Accumulate(cs, i + 1,
                [status |-> cs[i].status,
                 ts |-> cs[i].checked_at,
                 up |-> IF delta > 0 /\ acc.status = UP
                        THEN acc.up + delta ELSE acc.up,
                 down |-> IF delta > 0 /\ acc.status # UP
                          THEN acc.down + delta ELSE acc.down])

WithTailDropped(acc, now) == acc

WithTailUnguarded(acc, now) ==
    LET tail == now - acc.ts
    IN [acc EXCEPT !.up = IF acc.status = UP THEN acc.up + tail ELSE acc.up,
                   !.down = IF acc.status # UP
                            THEN acc.down + tail ELSE acc.down]

\* Tail: the time from the last observed point to now.
WithTail(acc, now) ==
    LET tail == now - acc.ts
    IN [acc EXCEPT !.up = IF tail > 0 /\ acc.status = UP
                          THEN acc.up + tail ELSE acc.up,
                   !.down = IF tail > 0 /\ acc.status # UP
                            THEN acc.down + tail ELSE acc.down]

\* The starting status, timestamp and index (lines 64-78).
Baseline(stored, cs, ws, assume_unknown_as_down) ==
    IF HasPrevious(stored, ws)
    THEN [status |-> Previous(stored, ws).status, ts |-> ws, start |-> 1]
    ELSE IF cs # << >>
    THEN [status |-> cs[1].status, ts |-> cs[1].checked_at, start |-> 2]
    ELSE [status |-> IF assume_unknown_as_down THEN DOWN ELSE UP,
          ts |-> ws, start |-> 1]

EffectiveSlaArgOnly(in) == in.sla_target_per_mille

\* sla_target_per_mille if passed, else the target's stored sla_target.
EffectiveSla(in) ==
    IF in.sla_target_per_mille = NULL THEN in.sla_target
    ELSE in.sla_target_per_mille

\* availability >= sla_target_per_mille / 1000, with availability the quotient
\* uptime / total: both sides are correctly rounded quotients, so the order of
\* the exact fractions decides whenever they differ.
SlaMet(up, total, sla) ==
    IF sla = NULL \/ total <= 0 THEN "null"
    ELSE IF 1000 * up >= sla * total THEN "true" ELSE "false"

\* The record uptime_window returns; availability is the pair uptime / total
\* and is null when total is 0.
UptimeWindow(in) ==
    LET ws == WindowStart(in.now, in.window_hours)
        cs == WindowChecks(in.stored, ws)
        sla == EffectiveSla(in)
    IN IF ~HasPrevious(in.stored, ws) /\ ~in.assume_unknown_as_down
          /\ cs = << >>
       THEN [called |-> TRUE, window_hours |-> in.window_hours,
             uptime_seconds |-> 0, downtime_seconds |-> 0,
             availability_null |-> TRUE, sample_count |-> 0,
             from_ts |-> ws, to_ts |-> in.now,
             sla_target_per_mille |-> sla, sla_met |-> "null"]
       ELSE LET b == Baseline(in.stored, cs, ws, in.assume_unknown_as_down)
                acc == WithTail(
                         Accumulate(cs, b.start,
                                    [status |-> b.status, ts |-> b.ts,
                                     up |-> 0, down |-> 0]),
                         in.now)
                total == acc.up + acc.down
            IN [called |-> TRUE, window_hours |-> in.window_hours,
                uptime_seconds |-> acc.up, downtime_seconds |-> acc.down,
                availability_null |-> ~(total > 0),
                sample_count |-> Len(cs),
                from_ts |-> ws, to_ts |-> in.now,
                sla_target_per_mille |-> sla,
                sla_met |-> SlaMet(acc.up, total, sla)]

NoMetricOut ==
    [called |-> FALSE, window_hours |-> 0,
     uptime_seconds |-> 0, downtime_seconds |-> 0,
     availability_null |-> TRUE, sample_count |-> 0,
     from_ts |-> 0, to_ts |-> 0,
     sla_target_per_mille |-> NULL, sla_met |-> "null"]

\* The inputs explored.  The call reads `now` = NowAt; results are stored at
\* the instants of TimePool: before both windows, inside the 24 h window
\* (30 min, 1 h, 1 h 30 min and 1 h 31 min after its start), at the start of
\* the 1 h window, inside it, at `now`, and after `now` (a result a worker
\* commits between the call's reading of the clock and its queries).
NowAt == 25 * SecondsPerHour
TimePool == {1800, 5400, 7200, 9000, 9060, 86400, 88200, 90000, 91800}
WindowHours == {1, 24}
MaxSamples == 5
SlaArgs == {NULL, 999}
TargetSlas == {NULL, 500}

\* ------------------------------------------------ the probe (checker.py)
\* Target.retry_count goes from -1 to MaxRetry: the API schema asks for >= 0,
\* the admin form (admin_add_site) stores any integer.
MaxRetry == 2
RetryCounts == (-1)..MaxRetry
Backoffs == {0, 100}
\* response.status_code of the response an attempt receives.
StatusCodes == {200, 399, 400, 503}

NoError == "none"

\* The exceptions client.get raises, by class: httpx.ReadTimeout is a
\* TimeoutException, httpx.ConnectError a NetworkError, httpx.ReadError a
\* NetworkError; all three are TransportErrors.  httpx.TooManyRedirects is a
\* RequestError and socket.gaierror an OSError: neither is a TransportError.
ExceptionPool ==
    {[class |-> "ReadTimeout", message |-> "The read operation timed out"],
     [class |-> "ConnectError", message |-> "All connection attempts failed"],
     [class |-> "ReadError", message |-> "Connection reset by peer"],
     [class |-> "TooManyRedirects",
      message |-> "Exceeded maximum allowed redirects."],
     [class |-> "gaierror", message |-> "Name or service not known"]}

IsTimeoutException(exc) == exc.class = "ReadTimeout"
IsConnectError(exc) == exc.class = "ConnectError"
IsTransportError(exc) ==
    exc.class \in {"ReadTimeout", "ConnectError", "ReadError"}
IsGaiError(exc) == exc.class = "gaierror"

\* exc.__class__.__name__.lower()
LowerClassName(exc) ==
    CASE exc.class = "ReadTimeout" -> "readtimeout"
      [] exc.class = "ConnectError" -> "connecterror"
      [] exc.class = "ReadError" -> "readerror"
      [] exc.class = "TooManyRedirects" -> "toomanyredirects"
      [] exc.class = "gaierror" -> "gaierror"

\* _normalize_error
NormalizeError(exc) ==
    IF IsTimeoutException(exc) THEN "timeout"
    ELSE IF IsConnectError(exc) THEN "connect_error"
    ELSE IF IsTransportError(exc) THEN LowerClassName(exc)
    ELSE IF IsGaiError(exc) THEN "dns_error"
    ELSE exc.message

\* status = UP if 200 <= response.status_code < 400 else DOWN
StatusOfAnyResponse(code) == UP
StatusOf(code) == IF 200 <= code /\ code < 400 THEN UP ELSE DOWN

NoRequest == [retry_count |-> 0, retry_backoff_ms |-> 0]
\* pc: "idle" before the call, "get" while an attempt awaits client.get,
\* "sleep" inside self._sleep, "returned" once the CheckResultDTO is built.
NoCall ==
    [pc |-> "idle", req |-> NoRequest, attempts |-> 0, attempt |-> 0,
     http_status |-> NULL, error |-> NoError, status |-> DOWN]

\* One entry of `wire` per client.get that ended (in a response, a transport
\* failure or an unexpected exception) and per self._sleep called.
GetEnded(kind, code, class) ==
    [ev |-> "get", kind |-> kind, code |-> code, class |-> class, ms |-> NULL]
SleepCalled(ms) ==
    [ev |-> "sleep", kind |-> "sleep", code |-> NULL, class |-> "none",
     ms |-> ms]

\* if attempt < attempts - 1: sleep and continue.
MoreAttemptsAlways(attempt, attempts) == TRUE
MoreAttempts(attempt, attempts) == attempt < attempts - 1

\* ------------------------------------------------------------------- state
Init0Worker ==
    /\ clock = 0
    /\ targets = [t \in Targets |->
                    IF t = "t1"
                    THEN [exists |-> TRUE, is_active |-> TRUE, deleted |-> FALSE]
                    ELSE NoTarget]
    /\ sched = [t \in Targets |-> NoRow]
    /\ rowLock = [t \in Targets |-> "none"]
    /\ incidents = << >>
    /\ checks = << >>
    /\ notified = << >>
    /\ pc = [w \in Workers |-> "start"]
    /\ wnow = [w \in Workers |-> 0]
    /\ missing = [w \in Workers |-> {}]
    /\ jobs = [w \in Workers |-> << >>]
    /\ task = [w \in Workers |-> [t \in Targets |-> NoTask]]

NoMetricIn == [stored |-> {}, now |-> 0, window_hours |-> 1,
               sla_target_per_mille |-> NULL, assume_unknown_as_down |-> TRUE,
               sla_target |-> NULL]

Init ==
    /\ Init0Worker
    /\ mIn = NoMetricIn /\ mOut = NoMetricOut /\ mRoute = "none"
    /\ call = NoCall /\ wire = << >>

\* ------------------------------------------------------------ the wall clock
Tick ==
    /\ clock < MaxTime
    /\ clock' = clock + 1
    /\ UNCHANGED <<targets, sched, rowLock, incidents, checks, notified,
                   pc, wnow, missing, jobs, task, metricVars, checkerVars>>

\* ------------------------------------------------------- admin: SiteService
\* SiteService.create: a new target (its id is fresh: never used before).
CreateTarget(t, active) ==
    /\ ~targets[t].exists
    /\ ~targets[t].deleted
    /\ targets' = [targets EXCEPT ![t] =
                     [exists |-> TRUE, is_active |-> active, deleted |-> FALSE]]
    /\ UNCHANGED <<clock, sched, rowLock, incidents, checks, notified,
                   pc, wnow, missing, jobs, task, metricVars, checkerVars>>

\* The rows of table `tbl` that do not belong to target t.
Without(tbl, t) == SelectSeq(tbl, LAMBDA r : r.target_id # t)

\* SiteService.delete: the target goes, and with it (ON DELETE CASCADE) its
\* scheduler_state row, its incidents and its check_results.  The delete waits
\* for a row lock another transaction holds on the scheduler_state row.
DeleteTarget(t) ==
    /\ targets[t].exists
    /\ rowLock[t] = "none"
    /\ targets' = [targets EXCEPT ![t] =
                     [exists |-> FALSE, is_active |-> FALSE, deleted |-> TRUE]]
    /\ sched' = [sched EXCEPT ![t] = NoRow]
    /\ incidents' = Without(incidents, t)
    /\ checks' = Without(checks, t)
    /\ UNCHANGED <<clock, rowLock, notified, pc, wnow, missing, jobs, task,
                   metricVars, checkerVars>>

\* ------------------------------------------------------ worker: run_forever
\* _ensure_scheduler_entries, the two SELECTs: the targets and the existing
\* scheduler_state.target_id values, and `now`.
EnsureScan(w) ==
    /\ pc[w] = "start"
    /\ wnow' = [wnow EXCEPT ![w] = clock]
    /\ missing' = [missing EXCEPT ![w] = MissingEntries(sched, targets)]
    /\ pc' = [pc EXCEPT ![w] = "ensuring"]
    /\ UNCHANGED <<clock, targets, sched, rowLock, incidents, checks, notified,
                   jobs, task, metricVars, checkerVars>>

\* An INSERT of `miss` breaks uq_scheduler_state_target (a row for the target
\* was committed meanwhile) or the foreign key (the target was deleted).
InsertRejected(s, tg, miss) ==
    \E t \in miss : s[t].present \/ ~tg[t].exists

\* _ensure_scheduler_entries, the flush and commit at the end of the block.  A
\* rejected INSERT raises out of run_forever: the worker process ends.  Else
\* run_forever enters its loop and _acquire_jobs reads `now` (line 81).
EnsureCommit(w) ==
    /\ pc[w] = "ensuring"
    /\ IF InsertRejected(sched, targets, missing[w])
       THEN /\ pc' = [pc EXCEPT ![w] = "failed"]
            /\ wnow' = [wnow EXCEPT ![w] = 0]
            /\ UNCHANGED sched
       ELSE /\ pc' = [pc EXCEPT ![w] = "selecting"]
            /\ wnow' = [wnow EXCEPT ![w] = clock]
            /\ sched' = InsertEntries(sched, missing[w], wnow[w])
    /\ missing' = [missing EXCEPT ![w] = {}]
    /\ UNCHANGED <<clock, targets, rowLock, incidents, checks, notified,
                   jobs, task, metricVars, checkerVars>>

\* run_forever, asyncio.sleep(poll_interval_sec) returns and the loop calls
\* _acquire_jobs, whose first statement reads `now` (line 81).
WakeUp(w) ==
    /\ pc[w] = "sleeping"
    /\ wnow' = [wnow EXCEPT ![w] = clock]
    /\ pc' = [pc EXCEPT ![w] = "selecting"]
    /\ UNCHANGED <<clock, targets, sched, rowLock, incidents, checks, notified,
                   missing, jobs, task, metricVars, checkerVars>>

\* _acquire_jobs, the SELECT ... FOR UPDATE OF scheduler_state SKIP LOCKED:
\* the rows returned are locked by this transaction.
AcquireJobsSelect(w, limit) ==
    /\ pc[w] = "selecting"
    /\ \E q \in SelectRows(Available(w), limit) :
          /\ jobs' = [jobs EXCEPT ![w] = q]
          /\ rowLock' = [t \in Targets |->
                           IF t \in Range(q) THEN w ELSE rowLock[t]]
    /\ pc' = [pc EXCEPT ![w] = "leasing"]
    /\ UNCHANGED <<clock, targets, sched, incidents, checks, notified,
                   wnow, missing, task, metricVars, checkerVars>>

\* run_forever: jobs = await self._acquire_jobs(limit=settings.fetch_batch_size)
AcquireSelect(w) == AcquireJobsSelect(w, fetch_batch_size)

\* The tasks of `tk` inside `async with self._semaphore`.
InFlight(tk) ==
    {t \in Targets : tk[t].st \in {"probing", "probed", "persisting"}}

AdmittedNever(q, tk) == tk

AdmittedAtOnce(q, tk) ==
    [t \in Targets |->
       IF tk[t].st = "waiting" THEN [tk[t] EXCEPT !.st = "probing"]
       ELSE tk[t]]

\* asyncio.Semaphore(checker_concurrency) over the tasks `tk` of the job list
\* q: the free slots go to the waiting tasks in the order they were created
\* (asyncio wakes waiters first-in first-out), and each starts its probe.
Admitted(q, tk) ==
    LET free == checker_concurrency - Cardinality(InFlight(tk))
        waiting == {i \in DOMAIN q : tk[q[i]].st = "waiting"}
        admit == {i \in waiting :
                     Cardinality({j \in waiting : j < i}) < free}
    IN [t \in Targets |->
          IF \E i \in admit : q[i] = t
          THEN [tk[t] EXCEPT !.st = "probing"] ELSE tk[t]]

\* _acquire_jobs, the lease written to every selected row and the commit, which
\* releases the row locks; then run_forever: no jobs -> sleep, else one
\* _run_job task per job, which the semaphore admits or keeps waiting.
AcquireCommit(w) ==
    /\ pc[w] = "leasing"
    /\ sched' = [t \in Targets |->
                   IF t \in Range(jobs[w])
                   THEN Leased(sched[t], w, wnow[w]) ELSE sched[t]]
    /\ rowLock' = [t \in Targets |->
                     IF rowLock[t] = w THEN "none" ELSE rowLock[t]]
    /\ IF jobs[w] = << >>
       THEN /\ pc' = [pc EXCEPT ![w] = "sleeping"]
            /\ UNCHANGED task
       ELSE /\ pc' = [pc EXCEPT ![w] = "running"]
            /\ task' = [task EXCEPT ![w] =
                          Admitted(jobs[w],
                              [t \in Targets |->
                                 IF t \in Range(jobs[w])
                                 THEN [NoTask EXCEPT !.st = "waiting"]
                                 ELSE NoTask])]
    /\ wnow' = [wnow EXCEPT ![w] = 0]
    /\ UNCHANGED <<clock, targets, incidents, checks, notified,
                   missing, jobs, metricVars, checkerVars>>

\* Probe results produced so far: the ones stored and the ones being stored.
ResultsProduced ==
    Len(checks) + Cardinality({x \in Workers \X Targets :
        task[x[1]][x[2]].st \in {"probed", "persisting"}})

\* Checker.check returns: status UP or DOWN, checked_at = now.
ProbeReturns(w, t, status) ==
    /\ pc[w] = "running"
    /\ task[w][t].st = "probing"
    /\ task' = [task EXCEPT ![w][t] =
                  [st |-> "probed", status |-> status, checked_at |-> clock,
                   found |-> FALSE]]
    /\ UNCHANGED <<clock, targets, sched, rowLock, incidents, checks, notified,
                   pc, wnow, missing, jobs, metricVars, checkerVars>>

\* The same, for at most MaxProbes results in one behaviour.
FinishProbe(w, t, status) ==
    /\ ResultsProduced < MaxProbes
    /\ ProbeReturns(w, t, status)

\* A _run_job task of worker w returns, `tk` being w's tasks with that one
\* over: it leaves the semaphore, which admits the next waiting task; with no
\* task left asyncio.gather returns, and the loop calls _acquire_jobs, which
\* reads `now` (line 81).
TaskOver(w, tk) ==
    IF \A t \in Targets : tk[t].st \in {"none", "done", "skipped", "failed"}
    THEN /\ task' = [task EXCEPT ![w] = [t \in Targets |-> NoTask]]
         /\ jobs' = [jobs EXCEPT ![w] = << >>]
         /\ pc' = [pc EXCEPT ![w] = "selecting"]
         /\ wnow' = [wnow EXCEPT ![w] = clock]
    ELSE /\ task' = [task EXCEPT ![w] = Admitted(jobs[w], tk)]
         /\ UNCHANGED <<jobs, pc, wnow>>

PersistLockUnguarded(w, t) ==
    /\ pc[w] = "running"
    /\ task[w][t].st = "probed"
    /\ rowLock[t] = "none"
    /\ rowLock' = [rowLock EXCEPT ![t] = w]
    /\ task' = [task EXCEPT ![w][t].st = "persisting",
                            ![w][t].found = OpenIds(incidents, t) # {}]
    /\ UNCHANGED <<jobs, pc, wnow>>
    /\ UNCHANGED <<clock, targets, sched, incidents, checks, notified,
                   missing, metricVars, checkerVars>>

PersistLockUnserialised(w, t) ==
    /\ pc[w] = "running"
    /\ task[w][t].st = "probed"
    /\ IF sched[t].present /\ targets[t].exists
       THEN /\ rowLock' = [rowLock EXCEPT ![t] = w]
            /\ task' = [task EXCEPT ![w][t].st = "persisting",
                                    ![w][t].found = OpenIds(incidents, t) # {}]
            /\ UNCHANGED <<jobs, pc, wnow>>
       ELSE /\ TaskOver(w, [task[w] EXCEPT ![t] = SkippedTask])
            /\ UNCHANGED rowLock
    /\ UNCHANGED <<clock, targets, sched, incidents, checks, notified,
                   missing, metricVars, checkerVars>>

\* _persist_result, SELECT scheduler_state WHERE id = :id FOR UPDATE (it waits
\* while another transaction holds the row) and session.get(Target): with no
\* row or no target the transaction ends and the job is over (the task is
\* "skipped": it returned at line 153 or 158).  With both, the
\* transaction goes on to the open-incident lookup of _update_incident, which
\* reads what is committed then: `found` is whether it returned an incident.
PersistLock(w, t) ==
    /\ pc[w] = "running"
    /\ task[w][t].st = "probed"
    /\ rowLock[t] = "none"
    /\ IF sched[t].present /\ targets[t].exists
       THEN /\ rowLock' = [rowLock EXCEPT ![t] = w]
            /\ task' = [task EXCEPT ![w][t].st = "persisting",
                                    ![w][t].found = OpenIds(incidents, t) # {}]
            /\ UNCHANGED <<jobs, pc, wnow>>
       ELSE /\ TaskOver(w, [task[w] EXCEPT ![t] = SkippedTask])
            /\ UNCHANGED rowLock
    /\ UNCHANGED <<clock, targets, sched, incidents, checks, notified,
                   missing, metricVars, checkerVars>>

CheckRowBackdated(w, t, r) ==
    [target_id |-> t, status |-> r.status,
     checked_at |-> MaxTime - r.checked_at, by |-> w]

\* The CheckResult row of result r; `by` is not a column: it records the
\* worker whose transaction committed the row.
CheckRow(w, t, r) ==
    [target_id |-> t, status |-> r.status, checked_at |-> r.checked_at,
     by |-> w]

\* _update_incident after a lookup that is out of date, another transaction
\* having committed an incident change of the target since: a DOWN result
\* whose lookup found nothing inserts an incident; every other case writes
\* only the row the lookup returned, which leaves the open incidents as they
\* are.
UpdateIncidentStale(incs, found, t, status, ts) ==
    IF status = DOWN /\ ~found
    THEN Flushed(Append(incs, NewIncident(t, ts)))
    ELSE Flushed(incs)

\* _persist_result, the rest of the transaction: the CheckResult, the incident
\* step, the new next_run_at and the cleared lease, committed together.  The
\* incident step acts on its lookup: while the table still answers the lookup
\* as it did, that is _update_incident on the table.  An INSERT the
\* open-incident index rejects raises: the transaction rolls back and _run_job
\* logs "job failed".
PersistCommit(w, t) ==
    /\ pc[w] = "running"
    /\ task[w][t].st = "persisting"
    /\ LET r == task[w][t]
           res == IF r.found = (OpenIds(incidents, t) # {})
                  THEN UpdateIncident(incidents, t, r.status, r.checked_at)
                  ELSE UpdateIncidentStale(incidents, r.found, t, r.status,
                                           r.checked_at)
       IN IF res.ok
          THEN /\ checks' = Append(checks, CheckRow(w, t, r))
               /\ incidents' = res.table
               /\ sched' = [sched EXCEPT ![t] =
                              Completed(sched[t], t, r.checked_at)]
               /\ TaskOver(w, [task[w] EXCEPT ![t] = DoneTask])
          ELSE /\ TaskOver(w, [task[w] EXCEPT ![t] = FailedTask])
               /\ UNCHANGED <<checks, incidents, sched>>
    /\ rowLock' = [rowLock EXCEPT ![t] = "none"]
    /\ UNCHANGED <<clock, targets, notified, missing, metricVars, checkerVars>>

PersistAbortedAfterInsert(w, t) ==
    /\ pc[w] = "running"
    /\ task[w][t].st = "persisting"
    /\ checks' = Append(checks, CheckRow(w, t, task[w][t]))
    /\ TaskOver(w, [task[w] EXCEPT ![t] = FailedTask])
    /\ rowLock' = [rowLock EXCEPT ![t] = "none"]
    /\ UNCHANGED <<clock, targets, sched, incidents, notified,
                   missing, metricVars, checkerVars>>

\* The store aborts the _persist_result transaction (a deadlock victim, a
\* serialization failure): it rolls back, the exception leaves
\* _persist_result, and the `except Exception` of _run_job logs "job failed":
\* the task is over, the row keeps the lease the worker wrote.
PersistAborted(w, t) ==
    /\ pc[w] = "running"
    /\ task[w][t].st = "persisting"
    /\ TaskOver(w, [task[w] EXCEPT ![t] = FailedTask])
    /\ rowLock' = [rowLock EXCEPT ![t] = "none"]
    /\ UNCHANGED <<clock, targets, sched, incidents, checks, notified,
                   missing, metricVars, checkerVars>>

\* The store refuses the connection of _acquire_jobs: the exception leaves
\* _acquire_jobs and, nothing catching it, run_forever and asyncio.run: the
\* worker process ends.
AcquireFails(w) ==
    /\ pc[w] = "selecting"
    /\ Cardinality({x \in Workers : pc[x] = "failed"}) < MaxStoreFailures
    /\ pc' = [pc EXCEPT ![w] = "failed"]
    /\ wnow' = [wnow EXCEPT ![w] = 0]
    /\ UNCHANGED <<clock, targets, sched, rowLock, incidents, checks, notified,
                   missing, jobs, task, metricVars, checkerVars>>

\* The worker process is killed: its open transaction rolls back (its row locks
\* go), its tasks are gone, the leases it committed stay in the store.
Crash(w) ==
    /\ pc[w] \notin {"crashed", "failed"}
    /\ Cardinality({x \in Workers : pc[x] = "crashed"}) < MaxCrashes
    /\ pc' = [pc EXCEPT ![w] = "crashed"]
    /\ rowLock' = [t \in Targets |->
                     IF rowLock[t] = w THEN "none" ELSE rowLock[t]]
    /\ missing' = [missing EXCEPT ![w] = {}]
    /\ jobs' = [jobs EXCEPT ![w] = << >>]
    /\ task' = [task EXCEPT ![w] = [t \in Targets |-> NoTask]]
    /\ wnow' = [wnow EXCEPT ![w] = 0]
    /\ UNCHANGED <<clock, targets, sched, incidents, checks, notified,
                   metricVars, checkerVars>>

Next ==
    \/ Tick
    \/ \E t \in Targets, a \in BOOLEAN : CreateTarget(t, a)
    \/ \E t \in Targets : DeleteTarget(t)
    \/ \E w \in Workers : EnsureScan(w)
    \/ \E w \in Workers : EnsureCommit(w)
    \/ \E w \in Workers : WakeUp(w)
    \/ \E w \in Workers : AcquireSelect(w)
    \/ \E w \in Workers : AcquireCommit(w)
    \/ \E w \in Workers, t \in Targets, s \in Status : FinishProbe(w, t, s)
    \/ \E w \in Workers, t \in Targets : PersistLock(w, t)
    \/ \E w \in Workers, t \in Targets : PersistCommit(w, t)
    \/ \E w \in Workers : Crash(w)

Spec == Init /\ [][Next]_vars

\* ------------------------------------------- the worker over a failing store
NextFaults ==
    \/ Next
    \/ \E w \in Workers, t \in Targets : PersistAborted(w, t)
    \/ \E w \in Workers : AcquireFails(w)

SpecFaults == Init /\ [][NextFaults]_vars

\* ------------------------------------------------- _acquire_jobs, alone
\* The limit each worker passes to _acquire_jobs: one row for w1, two for w2.
AcquireLimit(w) == IF w = "w1" THEN 1 ELSE 2

\* The leases a scheduler_state row may carry: none, or a worker's lease
\* ending at 1 or 2 (written by an acquire with now = 0 or 1).
LeaseStates ==
    {[lease_owner |-> NoOwner, lease_expires_at |-> NULL]}
    \cup [lease_owner : Workers, lease_expires_at : 1..(MaxTime + lease_timeout_sec)]

\* The rows a target may have: none, or one due at any instant up to MaxTime +
\* 1, with any lease.
RowStates ==
    {NoRow} \cup
    {[present |-> TRUE, next_run_at |-> n, lease_owner |-> l.lease_owner,
      lease_expires_at |-> l.lease_expires_at] :
        n \in 0..(MaxTime + 1), l \in LeaseStates}

\* The store holds any targets and any scheduler_state rows (a row only for
\* an existing target); both workers are between two polls.
InitAcquire ==
    /\ clock \in 0..MaxTime
    /\ targets \in [Targets -> {NoTarget,
                                   [exists |-> TRUE, is_active |-> TRUE,
                                    deleted |-> FALSE],
                                   [exists |-> TRUE, is_active |-> FALSE,
                                    deleted |-> FALSE]}]
    /\ sched \in [Targets -> RowStates]
    /\ \A t \in Targets : sched[t].present => targets[t].exists
    /\ rowLock = [t \in Targets |-> "none"]
    /\ incidents = << >> /\ checks = << >> /\ notified = << >>
    /\ pc = [w \in Workers |-> "sleeping"]
    /\ wnow = [w \in Workers |-> 0]
    /\ missing = [w \in Workers |-> {}]
    /\ jobs = [w \in Workers |-> << >>]
    /\ task = [w \in Workers |-> [t \in Targets |-> NoTask]]
    /\ mIn = NoMetricIn /\ mOut = NoMetricOut /\ mRoute = "none"
    /\ call = NoCall /\ wire = << >>

NextAcquire ==
    \/ Tick
    \/ \E w \in Workers : WakeUp(w)
    \/ \E w \in Workers : AcquireJobsSelect(w, AcquireLimit(w))
    \/ \E w \in Workers : AcquireCommit(w)

SpecAcquire == InitAcquire /\ [][NextAcquire]_vars

\* --------------------------------------- the workers under fair scheduling
\* Both workers have started and sleep between two polls; both targets are
\* active and their rows, created at startup or rescheduled since, are due at
\* 0 or at 1.  No worker is killed and the store fails no transaction; w1
\* runs with a fetch_batch_size of 1 and w2 with 2; the number of probes is
\* not capped (the clock stops at MaxTime, after which no row becomes due
\* again).
InitLive ==
    /\ clock = 0
    /\ targets = [t \in Targets |->
                    [exists |-> TRUE, is_active |-> TRUE, deleted |-> FALSE]]
    /\ sched \in [Targets -> {NewSchedulerState(n) : n \in 0..MaxTime}]
    /\ rowLock = [t \in Targets |-> "none"]
    /\ incidents = << >> /\ checks = << >> /\ notified = << >>
    /\ pc = [w \in Workers |-> "sleeping"]
    /\ wnow = [w \in Workers |-> 0]
    /\ missing = [w \in Workers |-> {}]
    /\ jobs = [w \in Workers |-> << >>]
    /\ task = [w \in Workers |-> [t \in Targets |-> NoTask]]
    /\ mIn = NoMetricIn /\ mOut = NoMetricOut /\ mRoute = "none"
    /\ call = NoCall /\ wire = << >>

NextLive ==
    \/ Tick
    \/ \E w \in Workers : WakeUp(w)
    \/ \E w \in Workers : AcquireJobsSelect(w, AcquireLimit(w))
    \/ \E w \in Workers : AcquireCommit(w)
    \/ \E w \in Workers, t \in Targets, s \in Status : ProbeReturns(w, t, s)
    \/ \E w \in Workers, t \in Targets : PersistLock(w, t)
    \/ \E w \in Workers, t \in Targets : PersistCommit(w, t)

\* A worker process that can take a step of its loop or of one of its tasks
\* takes it: the event loop runs every ready coroutine, a probe ends within
\* its timeouts, and a transaction waiting for a row lock is granted it.
WorkerFairness(w) ==
    /\ WF_vars(WakeUp(w))
    /\ WF_vars(AcquireJobsSelect(w, AcquireLimit(w)))
    /\ WF_vars(AcquireCommit(w))
    /\ \A t \in Targets :
          /\ WF_vars(\E s \in Status : ProbeReturns(w, t, s))
          /\ SF_vars(PersistLock(w, t))
          /\ WF_vars(PersistCommit(w, t))

SpecLive ==
    InitLive /\ [][NextLive]_vars /\ \A w \in Workers : WorkerFairness(w)

\* ------------------------- the workers from startup, under fair scheduling
\* The workers start (one active target exists), and targets are created at
\* any moment, before or after a worker's startup scan.
NextStartup ==
    \/ NextLive
    \/ \E t \in Targets, a \in BOOLEAN : CreateTarget(t, a)
    \/ \E w \in Workers : EnsureScan(w)
    \/ \E w \in Workers : EnsureCommit(w)

\* run_forever reaches and finishes _ensure_scheduler_entries.
StartupFairness(w) ==
    /\ WF_vars(EnsureScan(w))
    /\ WF_vars(EnsureCommit(w))

SpecStartup ==
    /\ Init /\ [][NextStartup]_vars
    /\ \A w \in Workers : StartupFairness(w) /\ WorkerFairness(w)

\* ------------------------------------------ the availability engine, alone
InitMetrics ==
    /\ Init0Worker
    /\ mIn \in [stored : {{}}, now : {NowAt}, window_hours : WindowHours,
                sla_target_per_mille : SlaArgs,
                assume_unknown_as_down : BOOLEAN,
                sla_target : TargetSlas]
    /\ mOut = NoMetricOut /\ mRoute = "none"
    /\ call = NoCall /\ wire = << >>

\* A worker commits a CheckResult of the target (before the metrics call).
StoreResult(ts, status) ==
    /\ ~mOut.called
    /\ Cardinality(mIn.stored) < MaxSamples
    /\ \A r \in mIn.stored : r.checked_at # ts
    /\ mIn' = [mIn EXCEPT !.stored =
                 @ \cup {[checked_at |-> ts, status |-> status]}]
    /\ UNCHANGED <<mOut, mRoute, workerVars, checkerVars>>

\* One call of MetricsService.uptime_window with the arguments of mIn.
CallUptimeWindow ==
    /\ ~mOut.called
    /\ mOut' = UptimeWindow(mIn)
    /\ mRoute' = "service"
    /\ UNCHANGED <<mIn, workerVars, checkerVars>>

\* The arguments get_uptime_metrics passes: target_id and window_hours; the
\* other two keep their defaults, sla_target_per_mille = None and
\* assume_unknown_as_down = True.
EndpointArgs(in) ==
    [in EXCEPT !.sla_target_per_mille = NULL,
               !.assume_unknown_as_down = TRUE]

\* GET /metrics/uptime: get_uptime_metrics calls uptime_window and returns its
\* record as UptimeMetrics.
GetUptimeMetrics ==
    /\ ~mOut.called
    /\ mIn' = EndpointArgs(mIn)
    /\ mOut' = UptimeWindow(mIn')
    /\ mRoute' = "endpoint"
    /\ UNCHANGED <<workerVars, checkerVars>>

NextMetrics ==
    \/ \E ts \in TimePool, st \in Status : StoreResult(ts, st)
    \/ CallUptimeWindow
    \/ GetUptimeMetrics

SpecMetrics == InitMetrics /\ [][NextMetrics]_vars

\* --------------------------------------------------------- the probe, alone
\* Checker.check is called: attempts = retry_count + 1, the locals are set and
\* the loop over range(attempts) issues its first client.get, or, the range
\* being empty, the CheckResultDTO is returned at once.
CheckCall(rc, bo) ==
    /\ call.pc = "idle"
    /\ call' = [NoCall EXCEPT
                  !.pc = IF rc + 1 > 0 THEN "get" ELSE "returned",
                  !.req = [retry_count |-> rc, retry_backoff_ms |-> bo],
                  !.attempts = rc + 1]
    /\ UNCHANGED <<wire, workerVars, metricVars>>

\* client.get returns a response: http_status and status are set, break.
AttemptResponds(code) ==
    /\ call.pc = "get"
    /\ call' = [call EXCEPT !.pc = "returned",
                            !.http_status = code,
                            !.status = StatusOf(code)]
    /\ wire' = Append(wire, GetEnded("response", code, "none"))
    /\ UNCHANGED <<workerVars, metricVars>>

\* client.get raises.  A TransportError: error is set, then either sleep and
\* continue, or (last attempt) status = DOWN and the loop is over.  Any other
\* exception: error is set, status = DOWN, break.
AttemptRaises(exc) ==
    /\ call.pc = "get"
    /\ IF IsTransportError(exc)
       THEN IF MoreAttempts(call.attempt, call.attempts)
            THEN /\ call' = [call EXCEPT !.pc = "sleep",
                                         !.error = NormalizeError(exc)]
                 /\ wire' = wire \o
                        << GetEnded("transport", NULL, exc.class),
                           SleepCalled(call.req.retry_backoff_ms) >>
            ELSE /\ call' = [call EXCEPT !.pc = "returned",
                                         !.error = NormalizeError(exc),
                                         !.status = DOWN]
                 /\ wire' = Append(wire,
                        GetEnded("transport", NULL, exc.class))
       ELSE /\ call' = [call EXCEPT !.pc = "returned",
                                    !.error = NormalizeError(exc),
                                    !.status = DOWN]
            /\ wire' = Append(wire, GetEnded("unexpected", NULL, exc.class))
    /\ UNCHANGED <<workerVars, metricVars>>

\* self._sleep returns and `continue` takes the next value of range(attempts):
\* the next client.get, or the end of the loop.
SleepReturns ==
    /\ call.pc = "sleep"
    /\ call' = [call EXCEPT
                  !.attempt = @ + 1,
                  !.pc = IF call.attempt + 1 < call.attempts
                         THEN "get" ELSE "returned"]
    /\ UNCHANGED <<wire, workerVars, metricVars>>

InitChecker == Init

NextChecker ==
    \/ \E rc \in RetryCounts, bo \in Backoffs : CheckCall(rc, bo)
    \/ \E code \in StatusCodes : AttemptResponds(code)
    \/ \E exc \in ExceptionPool : AttemptRaises(exc)
    \/ SleepReturns

SpecChecker == InitChecker /\ [][NextChecker]_vars


\* ===================================================================
\* Properties
\* ===================================================================

\* The scheduler-row part of the lease query's WHERE clause: the row is due.
Due(t, now) ==
    /\ sched[t].present
    /\ sched[t].next_run_at <= now
    /\ (sched[t].lease_expires_at = NULL \/ sched[t].lease_expires_at <= now)

\* Worker w is inside an _acquire_jobs transaction that has selected its rows.
Leasing(w) == pc[w] = "leasing"

\* C1: two _acquire_jobs transactions that overlap (both have selected and
\* neither has committed) return disjoint sets of targets, every target they
\* return is a due row at its caller's `now`, and neither waits for the
\* other: each can take its next step (the select never blocks, the commit
\* never blocks).
C1_ConcurrentAcquiresDisjoint ==
    \A w1, w2 \in Workers :
        (w1 # w2 /\ pc[w1] \in {"selecting", "leasing"}
                 /\ pc[w2] \in {"selecting", "leasing"}) =>
            /\ (Leasing(w1) /\ Leasing(w2)) =>
                   Range(jobs[w1]) \cap Range(jobs[w2]) = {}
            /\ Leasing(w1) => \A t \in Range(jobs[w1]) : Due(t, wnow[w1])
            /\ pc[w1] = "selecting" => ENABLED AcquireSelect(w1)
            /\ pc[w1] = "leasing" => ENABLED AcquireCommit(w1)

\* Both workers are between select and commit, each with a row of its own.
C1_Witness ==
    /\ Leasing("w1") /\ Leasing("w2")
    /\ jobs["w1"] # << >> /\ jobs["w2"] # << >>

\* Worker w holds a job for target t that it has not completed.
HoldsJob(w, t) ==
    /\ pc[w] = "running"
    /\ task[w][t].st \in {"waiting", "probing", "probed", "persisting"}

\* Worker w's _acquire_jobs has returned (or is about to return) target t.
Acquired(w, t) == (Leasing(w) /\ t \in Range(jobs[w])) \/ HoldsJob(w, t)

\* C2: at most one probe in flight per target: while a worker holds an
\* uncompleted job for a target, no other worker's acquire returns it.
C2_AtMostOneInFlight ==
    \A w1, w2 \in Workers : \A t \in Targets :
        (w1 # w2 /\ HoldsJob(w1, t)) => ~Acquired(w2, t)

\* C3: every target has at most one incident with resolved = false.
C3_AtMostOneOpenIncident ==
    \A t \in Targets : Cardinality(OpenIds(incidents, t)) <= 1

\* Two DOWN results were committed for one target and one incident is open.
C3_Witness ==
    \E t \in Targets :
        /\ Cardinality(OpenIds(incidents, t)) = 1
        /\ Cardinality({i \in DOMAIN checks :
               checks[i].target_id = t /\ checks[i].status = DOWN}) = 2

\* A step that commits one complete(): one CheckResult more in the table.
CommitsResult == Len(checks') = Len(checks) + 1
\* The CheckResult such a step commits.
Committed == checks'[Len(checks')]

\* Every incident but those in `ids` is the same row after the step.
OthersUntouched(ids) ==
    \A i \in DOMAIN incidents : i \notin ids => incidents'[i] = incidents[i]

\* C4: a committed complete() with result r (timestamp r.checked_at) on target
\* T follows the incident transition table: no open incident and UP changes
\* no incident; no open incident and DOWN inserts exactly one open incident
\* {start_ts = t, last_status = DOWN, resolved = false}; an open incident and
\* DOWN keeps it open with start_ts unchanged and inserts none; an open
\* incident and UP sets end_ts = t, last_status = UP, resolved = true on it
\* and inserts none.
C4_IncidentTransitionTable ==
    [][CommitsResult =>
        LET r == Committed
            open == OpenIds(incidents, r.target_id)
        IN /\ (open = {} /\ r.status = UP) => incidents' = incidents
           /\ (open = {} /\ r.status = DOWN) =>
                 incidents' = Append(incidents,
                     [target_id |-> r.target_id, start_ts |-> r.checked_at,
                      end_ts |-> NULL, last_status |-> DOWN,
                      resolved |-> FALSE])
           /\ (open # {} /\ r.status = DOWN) =>
                 /\ Len(incidents') = Len(incidents)
                 /\ OthersUntouched(open)
                 /\ \A i \in open :
                       incidents'[i] = [incidents[i] EXCEPT !.last_status = DOWN]
           /\ (open # {} /\ r.status = UP) =>
                 /\ Len(incidents') = Len(incidents)
                 /\ OthersUntouched(open)
                 /\ \A i \in open :
                       incidents'[i] =
                           [incidents[i] EXCEPT !.end_ts = r.checked_at,
                                                !.last_status = UP,
                                                !.resolved = TRUE]
    ]_vars

\* A DOWN result at one instant was followed by a DOWN result at a later one,
\* and the incident the first opened is still the open one.
C4_Witness ==
    \E t \in Targets :
        /\ Len(incidents) = 1 /\ Len(checks) = 2
        /\ checks[1].target_id = t /\ checks[2].target_id = t
        /\ checks[1].status = DOWN /\ checks[2].status = DOWN
        /\ checks[1].checked_at < checks[2].checked_at
        /\ ~incidents[1].resolved

\* Emissions for HEALTHY -> FAILING / FAILING -> HEALTHY handed to a notifier.
OpenedEmissions ==
    Cardinality({i \in DOMAIN notified : notified[i].status = DOWN})
ClosedEmissions ==
    Cardinality({i \in DOMAIN notified : notified[i].status = UP})

\* C5: the number of notifier emissions for HEALTHY -> FAILING equals the
\* number of incidents opened, and the number for FAILING -> HEALTHY equals
\* the number of incidents closed (while no target, and with it its
\* incidents, has been deleted, the incidents table holds every one opened).
C5_EmissionPerTransition ==
    (\A t \in Targets : ~targets[t].deleted) =>
        /\ OpenedEmissions = Len(incidents)
        /\ ClosedEmissions =
               Cardinality({i \in DOMAIN incidents : incidents[i].resolved})

\* C6: a committed complete() of worker w for target t (its task leaves the
\* transaction and a CheckResult is stored) appends exactly one CheckResult, the
\* task's result, sets next_run_at to result.checked_at plus the target's
\* check_interval_sec, and leaves lease_owner and lease_expires_at null.
C6_CompleteReschedules ==
    [][\A w \in Workers : \A t \in Targets :
        ( /\ task[w][t].st = "persisting"
          /\ task'[w][t].st # "persisting"
          /\ CommitsResult ) =>
            /\ checks' = Append(checks,
                   [target_id |-> t, status |-> task[w][t].status,
                    checked_at |-> task[w][t].checked_at, by |-> w])
            /\ sched'[t].present
            /\ sched'[t].next_run_at =
                   task[w][t].checked_at + check_interval_sec(t)
            /\ sched'[t].lease_owner = NoOwner
            /\ sched'[t].lease_expires_at = NULL
    ]_vars

\* The row of t1 (interval 1 s) was created with next_run_at = 0; its one
\* result was checked at 1, a second late, and left next_run_at = 2 (not
\* 0 + 1), and the lease is cleared.
C6_Witness ==
    /\ Len(checks) = 1
    /\ checks[1].target_id = "t1" /\ checks[1].status = DOWN
    /\ checks[1].checked_at = 1
    /\ sched["t1"].next_run_at = 2
    /\ sched["t1"].lease_owner = NoOwner
    /\ sched["t1"].lease_expires_at = NULL

\* The lease on target t is held by a worker that crashed.
CrashedLease(t) ==
    /\ sched[t].present
    /\ sched[t].lease_owner \in Workers
    /\ pc[sched[t].lease_owner] = "crashed"

\* C7: a row leased by a worker that crashed (no complete() will come) is
\* acquirable again once lease_timeout_sec has elapsed, with no manual
\* reclamation: an acquire by another worker whose `now` is at or past
\* lease_expires_at, for an active target whose row no other transaction has
\* locked, returns that target (or returns a full batch: then the limit, not
\* the lease, left it out).
C7_ExpiredLeaseReacquired ==
    [][\A w2 \in Workers : \A t \in Targets :
        ( /\ pc[w2] = "selecting" /\ pc'[w2] = "leasing"
          /\ CrashedLease(t)
          /\ sched[t].lease_expires_at <= wnow[w2]
          /\ targets[t].exists /\ targets[t].is_active
          /\ rowLock[t] = "none" ) =>
            \/ t \in Range(jobs'[w2])
            \/ Len(jobs'[w2]) = fetch_batch_size
    ]_vars

\* w1 crashed holding the lease on t1, the lease ran out, and w2's acquire has
\* selected t1 (its commit, not yet done, will overwrite w1's lease).
C7_Witness ==
    /\ pc["w1"] = "crashed"
    /\ sched["t1"].lease_owner = "w1"
    /\ sched["t1"].lease_expires_at <= clock
    /\ Leasing("w2") /\ "t1" \in Range(jobs["w2"])

\* C8: ensure_entries is idempotent: from any state of the store, a run at n1
\* followed by a run at n2 >= n1 with nothing in between yields the rows of
\* the first run alone (a row for every target; the rows that existed keep
\* their next_run_at and lease fields).
C8_EnsureEntriesIdempotent ==
    \A n1 \in clock..MaxTime : \A n2 \in n1..MaxTime :
        LET once == EnsureEntries(sched, targets, n1)
            twice == EnsureEntries(once, targets, n2)
        IN /\ twice = once
           /\ \A t \in Targets : targets[t].exists => once[t].present
           /\ \A t \in Targets : sched[t].present => twice[t] = sched[t]

\* Both workers have run ensure_entries, one after the other (the second
\* found nothing missing), and the row the first created is now leased.
C8_Witness ==
    /\ pc["w1"] = "running" /\ pc["w2"] = "sleeping"
    /\ sched["t1"].present /\ sched["t1"].lease_owner = "w1"
    /\ clock > 0

\* C9: for every window length and every stored set of CheckResults, ones
\* later than the call's `now` included, uptime_window returns
\* uptime_seconds + downtime_seconds <= window_hours * 3600.
C9_TotalWithinWindow ==
    mOut.called =>
        mOut.uptime_seconds + mOut.downtime_seconds
            <= mIn.window_hours * SecondsPerHour

\* The scenario of C10 in the stored results: a 24 h window, every result at
\* or before `now`, the last result before the window UP, the DOWN results
\* of the window exactly the two at W0 + 1 h and W0 + 1 h 30 min, an UP
\* result after them, and an SLA target of 999 per mille in force.
TwoDownScenario ==
    LET ws == WindowStart(mIn.now, mIn.window_hours)
    IN /\ mIn.window_hours = 24
       /\ \A r \in mIn.stored : r.checked_at <= mIn.now
       /\ HasPrevious(mIn.stored, ws)
       /\ Previous(mIn.stored, ws).status = UP
       /\ {r \in mIn.stored : r.checked_at >= ws /\ r.status = DOWN}
              = {[checked_at |-> ws + 3600, status |-> DOWN],
                 [checked_at |-> ws + 5400, status |-> DOWN]}
       /\ \E r \in mIn.stored : r.checked_at > ws + 5400 /\ r.status = UP
       /\ EffectiveSla(mIn) = 999

\* The instant of the first UP result after the second DOWN result.
RecoveredAt ==
    LET ws == WindowStart(mIn.now, mIn.window_hours)
        ups == {r.checked_at : r \in {x \in mIn.stored :
                    x.checked_at > ws + 5400 /\ x.status = UP}}
    IN CHOOSE u \in ups : \A v \in ups : u <= v

\* C10 as claimed: in the two-DOWN scenario uptime_window returns
\* downtime_seconds = 1800, uptime_seconds = 84600 and sla_met = false.
C10_TwoDownAsClaimed ==
    (mOut.called /\ TwoDownScenario) =>
        /\ mOut.downtime_seconds = 1800
        /\ mOut.uptime_seconds = 84600
        /\ mOut.sla_met = "false"

\* C10, amended: in the two-DOWN scenario the downtime runs from the first
\* DOWN result (W0 + 1 h) to the first UP result after the second DOWN one,
\* so downtime_seconds = 1800 + the delay of that UP result after
\* W0 + 1 h 30 min; uptime_seconds = 86400 - downtime_seconds; sla_met = false.
C10_TwoDownUntilRecovery ==
    (mOut.called /\ TwoDownScenario) =>
        LET ws == WindowStart(mIn.now, mIn.window_hours)
        IN /\ mOut.downtime_seconds = RecoveredAt - (ws + 3600)
           /\ mOut.downtime_seconds = 1800 + (RecoveredAt - (ws + 5400))
           /\ mOut.uptime_seconds = 86400 - mOut.downtime_seconds
           /\ mOut.sla_met = "false"

\* The scenario with the recovery seen 60 s after the second DOWN result, and
\* an UP result between the window's start and the first DOWN one.
C10_Witness ==
    /\ mOut.called /\ TwoDownScenario
    /\ RecoveredAt = 9060
    /\ [checked_at |-> 5400, status |-> UP] \in mIn.stored
    /\ mOut.downtime_seconds = 1860

\* C11: every incident satisfies I2: resolved implies end_ts is present and
\* end_ts >= start_ts; not resolved implies end_ts is null.
C11_IncidentTimestampsOrdered ==
    \A i \in DOMAIN incidents :
        /\ incidents[i].resolved =>
               /\ incidents[i].end_ts # NULL
               /\ incidents[i].end_ts >= incidents[i].start_ts
        /\ ~incidents[i].resolved => incidents[i].end_ts = NULL


\* C12: every SchedulerState row satisfies I3: lease_owner is null if and
\* only if lease_expires_at is null or in the past (at or before the clock,
\* the test the lease query applies).
C12_LeaseOwnerIffLive ==
    \A t \in Targets :
        sched[t].present =>
            ((sched[t].lease_owner = NoOwner) <=>
                (sched[t].lease_expires_at = NULL
                    \/ sched[t].lease_expires_at <= clock))

\* The client.get calls of the check() call that have ended, in order.
Gets == SelectSeq(wire, LAMBDA e : e.ev = "get")
\* The self._sleep calls of the check() call, in order.
Sleeps == SelectSeq(wire, LAMBDA e : e.ev = "sleep")
\* The client.get calls issued so far, the one under way included.
GetsIssued == Len(Gets) + (IF call.pc = "get" THEN 1 ELSE 0)

\* C13: for every request, check() makes at least one and at most
\* retry_count + 1 HTTP attempts, and makes a further attempt only after the
\* previous attempt ended in a transport failure.
C13_AttemptBudget ==
    /\ call.pc = "returned" => Len(Gets) >= 1
    /\ call.pc # "idle" => GetsIssued <= call.req.retry_count + 1
    /\ \A i \in 1..(GetsIssued - 1) : Gets[i].kind = "transport"

\* C14: when an attempt receives an HTTP response, check() stops without
\* further attempts (the response is the last thing on the wire and the call
\* has returned): a status in [200,400) gives UP, a status >= 400 gives DOWN,
\* and http_status is the status received, however many attempts remain.
C14_ResponseStops ==
    \A i \in DOMAIN wire :
        wire[i].kind = "response" =>
            /\ i = Len(wire)
            /\ call.pc = "returned"
            /\ call.http_status = wire[i].code
            /\ (200 <= wire[i].code /\ wire[i].code < 400) => call.status = UP
            /\ wire[i].code >= 400 => call.status = DOWN

\* The first attempt was answered 503 with two retries left: check() returned.
C14_Witness ==
    /\ call.pc = "returned"
    /\ call.req.retry_count = 2
    /\ Len(wire) = 1
    /\ wire[1].kind = "response" /\ wire[1].code = 503
    /\ call.status = DOWN

\* Every attempt of the budget was made and ended in a transport failure.
AllAttemptsFailed ==
    /\ call.pc = "returned"
    /\ Len(Gets) >= 1
    /\ Len(Gets) = call.req.retry_count + 1
    /\ \A i \in DOMAIN Gets : Gets[i].kind = "transport"

\* C15: when every one of the retry_count + 1 attempts ends in a transport
\* failure, check() returns DOWN with error set and no http_status, having
\* slept retry_backoff_ms exactly retry_count times: once between consecutive
\* attempts (attempts and sleeps alternate) and never after the last attempt.
C15_ExhaustedRetries ==
    AllAttemptsFailed =>
        /\ call.status = DOWN
        /\ call.error # NoError
        /\ call.http_status = NULL
        /\ Len(Sleeps) = call.req.retry_count
        /\ \A i \in DOMAIN Sleeps : Sleeps[i].ms = call.req.retry_backoff_ms
        /\ Len(wire) = 2 * call.req.retry_count + 1
        /\ \A i \in DOMAIN wire :
              wire[i].ev = (IF i % 2 = 1 THEN "get" ELSE "sleep")

\* retry_count = 2, backoff 100 ms, three attempts that all timed out.
C15_Witness ==
    /\ AllAttemptsFailed
    /\ call.req = [retry_count |-> 2, retry_backoff_ms |-> 100]
    /\ \A i \in DOMAIN Gets : Gets[i].class = "ReadTimeout"
    /\ call.error = "timeout"

\* The error kinds of the spec's error normalization.
ErrorKinds ==
    {"timeout", "connect_error", "dns_error", "tls_error", "transport_error",
     "other"}

\* C16: the error kind of every outcome is one of timeout, connect_error,
\* dns_error, tls_error, transport_error, other (or absent); an attempt that
\* ends in an unexpected (non-transport) exception is the last one (never
\* retried) and yields DOWN with error kind exactly "other".
C16_ErrorKindsNormalized ==
    /\ call.error \in ErrorKinds \cup {NoError}
    /\ \A i \in DOMAIN wire :
          wire[i].kind = "unexpected" =>
              /\ i = Len(wire)
              /\ call.pc = "returned"
              /\ call.status = DOWN
              /\ call.error = "other"

\* C17: a complete() transaction that fails with store contention is retried
\* by the worker (up to a small bound) before the result is abandoned: when
\* the store aborts the transaction of a job that has not failed before (no
\* job in the transaction has: a failure ends the job), the job goes back to
\* the start of the transaction with its result.
C17_ContentionRetried ==
    [][\A w \in Workers : \A t \in Targets :
        ( /\ task[w][t].st = "persisting"
          /\ task'[w][t].st # "persisting"
          /\ pc'[w] # "crashed"
          /\ checks' = checks ) =>
            /\ task'[w][t].st = "probed"
            /\ task'[w][t].status = task[w][t].status
            /\ task'[w][t].checked_at = task[w][t].checked_at
    ]_vars

\* C18: a store failure during polling (acquire raises) does not end
\* run_forever: the worker stays in its polling loop (it backs off and polls
\* again).
C18_PollingSurvivesStoreFailure ==
    [][\A w \in Workers :
        pc[w] = "selecting" => pc'[w] \in {"selecting", "leasing", "sleeping",
                                           "crashed"}
    ]_vars

\* C19: the uptime endpoint, called for a target with no CheckResult at all,
\* returns availability = null and sla_met = null.
C19_EndpointNoDataNull ==
    (mRoute = "endpoint" /\ mIn.stored = {}) =>
        /\ mOut.availability_null
        /\ mOut.sla_met = "null"

\* No result of the target is stored before the window or inside it (from
\* the window's start to `now`).
NoSampleUpToNow == \A r \in mIn.stored : r.checked_at > mIn.now

\* C20: uptime_window with no previous sample and no in-window sample: with
\* assume_unknown_as_down the whole window is downtime (uptime 0, downtime
\* window_hours * 3600, availability 0); without it availability and sla_met
\* are null and uptime and downtime are zero.
C20_NoDataPolicy ==
    (mOut.called /\ NoSampleUpToNow) =>
        IF mIn.assume_unknown_as_down
        THEN /\ mOut.uptime_seconds = 0
             /\ mOut.downtime_seconds = mIn.window_hours * SecondsPerHour
             /\ ~mOut.availability_null
        ELSE /\ mOut.uptime_seconds = 0
             /\ mOut.downtime_seconds = 0
             /\ mOut.availability_null
             /\ mOut.sla_met = "null"

\* The call found a result before the window (P), a result inside the window
\* from its start to `now`, or neither and applied the unknown-as-down policy.
PreWindowSample ==
    HasPrevious(mIn.stored, WindowStart(mIn.now, mIn.window_hours))
InWindowSample ==
    \E r \in mIn.stored :
        /\ r.checked_at >= WindowStart(mIn.now, mIn.window_hours)
        /\ r.checked_at <= mIn.now
PolicyApplied ==
    ~PreWindowSample /\ ~InWindowSample /\ mIn.assume_unknown_as_down

\* C21: uptime_window returns uptime_seconds + downtime_seconds equal to
\* window_hours * 3600 if and only if a pre-window sample exists or the
\* unknown-as-down policy was applied; with no pre-window sample and at least
\* one in-window sample the total is strictly less than window_hours * 3600.
C21_FullWindowIffBaseline ==
    mOut.called =>
        LET total == mOut.uptime_seconds + mOut.downtime_seconds
            full == mIn.window_hours * SecondsPerHour
        IN /\ (total = full) <=> (PreWindowSample \/ PolicyApplied)
           /\ (~PreWindowSample /\ InWindowSample) => total < full

\* C22: uptime_window returns uptime_seconds >= 0 and downtime_seconds >= 0;
\* availability is null exactly when uptime_seconds + downtime_seconds = 0,
\* and otherwise is uptime / (uptime + downtime), a value from 0 to 1.
C22_AvailabilityWellFormed ==
    mOut.called =>
        LET total == mOut.uptime_seconds + mOut.downtime_seconds
        IN /\ mOut.uptime_seconds >= 0
           /\ mOut.downtime_seconds >= 0
           /\ mOut.availability_null <=> (total = 0)
           /\ ~mOut.availability_null =>
                  /\ 0 <= mOut.uptime_seconds
                  /\ mOut.uptime_seconds <= total

\* A call that saw both uptime and downtime, and one whose only result is
\* dated after `now` (a negative tail).
C22_Witness ==
    /\ mOut.called
    /\ mOut.uptime_seconds > 0 /\ mOut.downtime_seconds > 0
    /\ ~mOut.availability_null
    /\ \E r \in mIn.stored : r.checked_at > mIn.now

\* C23: sla_met is null exactly when availability is null or no SLA target
\* is known; otherwise it is true exactly when
\* 1000 * uptime >= sla_target_per_mille * (uptime + downtime); and the
\* target in force is the argument when passed, else the target's stored
\* sla_target.
C23_SlaMet ==
    mOut.called =>
        LET total == mOut.uptime_seconds + mOut.downtime_seconds
            sla == IF mIn.sla_target_per_mille # NULL
                   THEN mIn.sla_target_per_mille ELSE mIn.sla_target
        IN /\ mOut.sla_target_per_mille = sla
           /\ (mOut.sla_met = "null") <=>
                  (mOut.availability_null \/ sla = NULL)
           /\ mOut.sla_met # "null" =>
                  ((mOut.sla_met = "true") <=>
                       1000 * mOut.uptime_seconds >= sla * total)

\* No argument passed, the target's stored 500 per mille in force and met
\* although the window holds downtime.
C23_Witness ==
    /\ mOut.called
    /\ mIn.sla_target_per_mille = NULL /\ mIn.sla_target = 500
    /\ mOut.sla_met = "true"
    /\ mOut.downtime_seconds > 0

\* C24: within one worker, at every instant the number of jobs executing a
\* probe or persisting its result is at most checker_concurrency, whatever
\* the size of the batch _acquire_jobs returned.
C24_InFlightBounded ==
    \A w \in Workers :
        Cardinality(InFlight(task[w])) <= checker_concurrency

\* A batch of two jobs over a semaphore of one slot: one probing, one waiting.
C24_Witness ==
    /\ Len(jobs["w1"]) > checker_concurrency
    /\ Cardinality(InFlight(task["w1"])) = checker_concurrency
    /\ \E t \in Targets : task["w1"][t].st = "waiting"

\* The rows worker w has leased whose job has not started its probe.
LeasedNotStarted(w) == {t \in Targets : task[w][t].st = "waiting"}

\* C25: the worker acquires only when its semaphore has free capacity and
\* asks for no more rows than that capacity: while the semaphore is full, no
\* row the worker has leased is still waiting to start its probe.
C25_NoBacklogWhenFull ==
    \A w \in Workers :
        Cardinality(InFlight(task[w])) = checker_concurrency
            => LeasedNotStarted(w) = {}

\* The commit of this step is at or after every earlier commit in `rows`.
InCheckedAtOrder(rows) ==
    \A i \in DOMAIN rows : rows[i].checked_at <= Committed.checked_at

\* The CheckResults of target t in the table, and those worker w committed.
ChecksOf(t) == SelectSeq(checks, LAMBDA r : r.target_id = t)
ChecksOfBy(t, w) == SelectSeq(checks, LAMBDA r : r.target_id = t /\ r.by = w)

\* Worker w completes under its own lease, not yet expired.
LeaseLive(w, t) ==
    /\ sched[t].lease_owner = w
    /\ sched[t].lease_expires_at > clock

\* C26: for every target, the CheckResults one worker commits are committed
\* in non-decreasing checked_at order; and a complete() made before its lease
\* expired commits a checked_at no earlier than any CheckResult of the target
\* committed before, whichever worker committed it.
C26_CommitsInCheckedAtOrder ==
    [][\A w \in Workers : \A t \in Targets :
        ( /\ task[w][t].st = "persisting"
          /\ task'[w][t].st # "persisting"
          /\ CommitsResult ) =>
            /\ InCheckedAtOrder(ChecksOfBy(t, w))
            /\ LeaseLive(w, t) => InCheckedAtOrder(ChecksOf(t))
    ]_vars

\* Two results of one target, the second committed by the other worker
\* under a lease taken after the first was completed.
C26_Witness ==
    /\ Len(checks) = 2
    /\ checks[1].target_id = checks[2].target_id
    /\ checks[1].by # checks[2].by
    /\ checks[1].checked_at <= checks[2].checked_at

\* Out of order across workers: possible only after a lease expired with its
\* job not completed.
C26_OutOfOrderReached ==
    /\ Len(checks) = 2
    /\ checks[1].target_id = checks[2].target_id
    /\ checks[1].checked_at > checks[2].checked_at

\* The steps of worker w's _acquire_jobs: the SELECT, and the commit after
\* which it returns jobs[w].
Selects(w) == pc[w] = "selecting" /\ pc'[w] = "leasing"
Returns(w) == pc[w] = "leasing" /\ pc'[w] \in {"sleeping", "running"}

\* C29: _acquire_jobs(limit) returns at most limit jobs; every returned row
\* had, at the call's `now`, an active target, next_run_at <= now and a lease
\* null or expired; every returned row ends with lease_owner = worker_id and
\* lease_expires_at = now + lease_timeout_sec, its next_run_at unchanged; no
\* field of a row not returned changes.
C29_AcquireFrame ==
    [][\A w \in Workers :
        /\ Selects(w) =>
              /\ Len(jobs'[w]) <= AcquireLimit(w)
              /\ \A t \in Range(jobs'[w]) :
                    /\ targets[t].exists /\ targets[t].is_active
                    /\ sched[t].present
                    /\ sched[t].next_run_at <= wnow[w]
                    /\ \/ sched[t].lease_expires_at = NULL
                       \/ sched[t].lease_expires_at <= wnow[w]
              /\ sched' = sched
        /\ Returns(w) =>
              /\ \A t \in Range(jobs[w]) :
                    /\ sched'[t].present
                    /\ sched'[t].lease_owner = w
                    /\ sched'[t].lease_expires_at = wnow[w] + lease_timeout_sec
                    /\ sched'[t].next_run_at = sched[t].next_run_at
              /\ \A t \in Targets \ Range(jobs[w]) : sched'[t] = sched[t]
              /\ jobs'[w] = jobs[w]
    ]_vars

\* w1 asked for one row while two were due: it holds one lease taken with a
\* `now` of 1, and the other row, still due, carries no lease of w1.
C29_Witness ==
    /\ pc["w1"] = "running" /\ Len(jobs["w1"]) = 1
    /\ \E t \in Targets : \E u \in Targets \ {t} :
          /\ jobs["w1"] = <<t>>
          /\ sched[t].lease_owner = "w1"
          /\ sched[t].lease_expires_at = 1 + lease_timeout_sec
          /\ sched[u].present /\ sched[u].lease_owner # "w1"
          /\ sched[u].next_run_at <= 1

\* C30: when more eligible, unlocked rows exist than limit, one _acquire_jobs
\* returns limit rows, none with a next_run_at later than that of an
\* eligible, unlocked row it left behind.
C30_EarliestFirst ==
    [][\A w \in Workers :
        (Selects(w) /\ Cardinality(Available(w)) > AcquireLimit(w)) =>
            /\ Len(jobs'[w]) = AcquireLimit(w)
            /\ \A t \in Range(jobs'[w]) :
                  \A u \in Available(w) \ Range(jobs'[w]) :
                      sched[t].next_run_at <= sched[u].next_run_at
    ]_vars

\* w1 asked for one row of two due ones and selected the earlier (due at 0),
\* leaving the one due at 1.
C30_Witness ==
    /\ pc["w1"] = "leasing" /\ wnow["w1"] = 1
    /\ \E t \in Targets : \E u \in Targets \ {t} :
          /\ jobs["w1"] = <<t>>
          /\ sched[t].next_run_at = 0
          /\ sched[u].next_run_at = 1
          /\ Eligible(sched, targets, u, wnow["w1"])
          /\ rowLock[u] = "none"

\* The scheduler_state row of t is due now: its target active, next_run_at
\* reached, its lease absent or expired.
DueNow(t) == Eligible(sched, targets, t, clock)

C28_CreatedTargetIsProbed ==
    \A t \in Targets :
        (targets[t].exists /\ targets[t].is_active)
            ~> (sched[t].present /\ \E i \in DOMAIN checks :
                                        checks[i].target_id = t)

\* The step-function reference of the window [W0, now]: the samples it is
\* read from, its start (t0), and the status in force at an instant.
RefWindowSamples ==
    {r \in mIn.stored :
        /\ r.checked_at >= WindowStart(mIn.now, mIn.window_hours)
        /\ r.checked_at <= mIn.now}
RefDefined == PreWindowSample \/ RefWindowSamples # {} \/ PolicyApplied
RefStart ==
    IF PreWindowSample \/ RefWindowSamples = {}
    THEN WindowStart(mIn.now, mIn.window_hours)
    ELSE CHOOSE x \in {r.checked_at : r \in RefWindowSamples} :
             \A r \in RefWindowSamples : x <= r.checked_at
RefStatusAt(x) ==
    LET before == {r \in mIn.stored : r.checked_at <= x}
    IN IF before = {} THEN DOWN
       ELSE (CHOOSE r \in before :
                 \A y \in before : y.checked_at <= r.checked_at).status

\* The instants of [t0, now] where the status may change, and the length of
\* the time attributed to `status`: the sum, over each such instant but the
\* last, of the span up to the next one when `status` is in force there.
RefPoints ==
    {RefStart, mIn.now}
    \cup {r.checked_at : r \in {x \in RefWindowSamples :
                                    x.checked_at >= RefStart}}
RefNext(p) == CHOOSE q \in RefPoints : q > p /\ \A z \in RefPoints :
                  z > p => q <= z
RECURSIVE RefSum(_, _)
RefSum(points, status) ==
    IF points = {} THEN 0
    ELSE LET p == CHOOSE x \in points : TRUE
         IN (IF p < mIn.now /\ RefStatusAt(p) = status
             THEN RefNext(p) - p ELSE 0)
            + RefSum(points \ {p}, status)

\* C31: uptime_window equals the step-function reference: from (status0, t0)
\* every instant of [t0, now] is attributed to the status of the latest
\* sample at or before it; uptime_seconds and downtime_seconds are the
\* lengths of the UP and DOWN time, sample_count the number of in-window
\* samples.
C31_StepFunctionReference ==
    (mOut.called /\ RefDefined) =>
        /\ mOut.uptime_seconds = RefSum(RefPoints, UP)
        /\ mOut.downtime_seconds = RefSum(RefPoints, DOWN)
        /\ mOut.sample_count = Cardinality(RefWindowSamples)

\* The same, for calls that find no result dated after `now`.
C31_ReferenceUpToNow ==
    (\A r \in mIn.stored : r.checked_at <= mIn.now)
        => C31_StepFunctionReference

\* C32: every outcome check() returns has exactly one of three shapes: UP
\* with http_status in [200, 400) and no error; DOWN with http_status >= 400
\* and no error; DOWN with no http_status and an error kind.  An outcome that
\* got a response after failed attempts carries no error.
C32_OutcomeShapes ==
    call.pc = "returned" =>
        \/ /\ call.status = UP
           /\ call.http_status # NULL
           /\ 200 <= call.http_status /\ call.http_status < 400
           /\ call.error = NoError
        \/ /\ call.status = DOWN
           /\ call.http_status # NULL /\ call.http_status >= 400
           /\ call.error = NoError
        \/ /\ call.status = DOWN
           /\ call.http_status = NULL
           /\ call.error # NoError

\* C33: a complete() of worker w changes the row's lease fields only if the
\* lease is still w's: a worker whose lease expired and whose row another
\* worker re-acquired never clears that worker's lease.
C33_CompleteKeepsForeignLease ==
    [][\A w \in Workers : \A t \in Targets :
        ( /\ task[w][t].st = "persisting"
          /\ task'[w][t].st # "persisting"
          /\ pc'[w] # "crashed"
          /\ sched[t].lease_owner # w ) =>
            /\ sched'[t].lease_owner = sched[t].lease_owner
            /\ sched'[t].lease_expires_at = sched[t].lease_expires_at
    ]_vars

\* The _persist_result transaction of worker w for target t ends in this
\* step: by its commit, its rollback, or the death of the worker.
PersistEnds(w, t) ==
    task[w][t].st = "persisting" /\ task'[w][t].st # "persisting"

\* C34: complete() is atomic: when its transaction ends, either all of its
\* effects are visible (the CheckResult, the incident transition, the new
\* next_run_at, the cleared lease) or none is; when it fails the row keeps
\* lease_owner, lease_expires_at and next_run_at, no CheckResult is stored,
\* and a row whose lease has not expired stays out of reach of acquire.
C34_CompleteAtomic ==
    [][\A w \in Workers : \A t \in Targets :
        PersistEnds(w, t) =>
            LET r == task[w][t]
            IN \/ /\ checks' = Append(checks, CheckRow(w, t, r))
                  /\ incidents' =
                         UpdateIncident(incidents, t, r.status,
                                        r.checked_at).table
                  /\ sched'[t] = Completed(sched[t], t, r.checked_at)
               \/ /\ checks' = checks
                  /\ incidents' = incidents
                  /\ sched' = sched
                  /\ (sched[t].lease_expires_at # NULL
                      /\ sched[t].lease_expires_at > clock)
                         => ~Eligible(sched', targets', t, clock')
    ]_vars

\* w1's complete() for t1 failed: nothing is stored, and the row still
\* carries w1's unexpired lease while w1 polls again.
C34_Witness ==
    /\ pc["w1"] = "selecting"
    /\ task["w1"]["t1"].st = "none"
    /\ checks = << >> /\ incidents = << >>
    /\ sched["t1"].lease_owner = "w1"
    /\ sched["t1"].lease_expires_at > clock
    /\ ~Eligible(sched, targets, "t1", clock)

\* The changes to DOWN in the committed results of t, in commit order: a DOWN
\* result that is the first one or follows an UP one.
TurnsDown(t) ==
    LET cs == ChecksOf(t)
    IN {i \in DOMAIN cs :
           cs[i].status = DOWN /\ (i = 1 \/ cs[i - 1].status = UP)}

IncidentsOf(t) == {i \in DOMAIN incidents : incidents[i].target_id = t}

\* C35: for every target, an open incident exists if and only if the most
\* recently committed CheckResult of the target is DOWN, and the number of
\* incidents ever opened for it equals the number of changes to DOWN (an
\* initial DOWN included) in its results in commit order.
C35_IncidentsFollowResults ==
    \A t \in Targets :
        LET cs == ChecksOf(t)
        IN /\ (OpenIds(incidents, t) # {})
                  <=> (cs # << >> /\ cs[Len(cs)].status = DOWN)
           /\ Cardinality(IncidentsOf(t)) = Cardinality(TurnsDown(t))

\* Two DOWN results of t1 committed by different workers: one incident, open.
C35_Witness ==
    /\ Len(ChecksOf("t1")) = 2
    /\ \A i \in 1..2 : ChecksOf("t1")[i].status = DOWN
    /\ ChecksOf("t1")[1].by # ChecksOf("t1")[2].by
    /\ Cardinality(IncidentsOf("t1")) = 1
    /\ OpenIds(incidents, "t1") # {}

\* C36: for every target, next_run_at never decreases across successive
\* committed _persist_result transactions, under every interleaving of
\* workers: a transaction that commits a CheckResult of a target that already
\* has one (the row's next_run_at is then the one the previous transaction
\* wrote, nothing else writing that column) leaves next_run_at at least as
\* large as it found it.
C36_NextRunNeverDecreases ==
    [][\A t \in Targets :
          (ChecksOf(t) # << >> /\ Len(ChecksOf(t)') = Len(ChecksOf(t)) + 1)
              => sched'[t].next_run_at >= sched[t].next_run_at]_vars

\* The workers whose _persist_result transaction on target t is past the row
\* lock and not yet committed.
Persisting(t) == {w \in Workers : task[w][t].st = "persisting"}

\* C37: two _persist_result transactions of one target never overlap in their
\* incident step: at most one is past the scheduler_state row lock, it holds
\* that lock, its open-incident lookup still answers as the table does (it
\* skipped no open incident, and it saw the change of the transaction before
\* it), and the store takes its incident step: no unique violation on
\* uq_incidents_open.
C37_CompletesSerialised ==
    \A t \in Targets :
        /\ Cardinality(Persisting(t)) <= 1
        /\ \A w \in Persisting(t) :
              /\ rowLock[t] = w
              /\ task[w][t].found = (OpenIds(incidents, t) # {})
              /\ UpdateIncident(incidents, t, task[w][t].status,
                                task[w][t].checked_at).ok

\* Two jobs of one target overlapped (the second result is not later than
\* the first, which a job acquired after the first commit cannot be), both
\* DOWN: the second transaction got the row lock after the first committed,
\* and its lookup found the incident the first one opened.
C37_Witness ==
    \E t \in Targets, w \in Workers, i \in DOMAIN checks :
        /\ task[w][t].st = "persisting"
        /\ task[w][t].status = DOWN
        /\ task[w][t].found
        /\ checks[i].target_id = t
        /\ checks[i].by # w
        /\ checks[i].status = DOWN
        /\ task[w][t].checked_at <= checks[i].checked_at

\* The second transaction waiting: one worker holds the row lock of a target
\* while another has a result of the same target to store.
C37_SecondWaits ==
    \E t \in Targets, w, v \in Workers :
        /\ task[w][t].st = "persisting"
        /\ task[v][t].st = "probed"
        /\ task[w][t].status = DOWN /\ task[v][t].status = DOWN
        /\ OpenIds(incidents, t) = {}

\* A step in which worker w's _persist_result for target t runs to its end or
\* to its row lock.
PersistRuns(w, t) ==
    /\ task[w][t].st = "probed"
    /\ task'[w][t].st # "probed"
    /\ pc'[w] # "crashed"

\* C38: when the target, and by cascade its scheduler_state row, was deleted
\* between _acquire_jobs and _persist_result, _persist_result is a no-op: it
\* writes no CheckResult, opens or changes no incident, creates no scheduler
\* row, and raises nothing (the task returns, the worker runs on).
C38_CompleteOfDeletedIsNoOp ==
    [][\A w \in Workers, t \in Targets :
          (targets[t].deleted /\ PersistRuns(w, t))
              => /\ checks' = checks
                 /\ incidents' = incidents
                 /\ sched' = sched
                 /\ ~sched'[t].present
                 /\ targets' = targets
                 /\ task'[w][t].st \in {"skipped", "none"}
                 /\ pc'[w] \in {"running", "selecting"}]_vars

\* A job of a deleted target returned without storing while the worker's
\* other job, of a target that has its row, goes on.
C38_Witness ==
    \E w \in Workers, t, u \in Targets :
        /\ task[w][t].st = "skipped"
        /\ targets[t].deleted
        /\ ~sched[t].present
        /\ task[w][u].st \in {"waiting", "probing", "probed", "persisting"}
        /\ sched[u].present

\* C39: when two workers start together and run _ensure_scheduler_entries
\* concurrently over targets lacking a scheduler_state row, both finish startup
\* and enter the polling loop, and each such target then has its row: a worker
\* whose _ensure_scheduler_entries ends, the targets it found without a row
\* still existing, goes on to _acquire_jobs with a row present for each.
C39_ConcurrentStartupSucceeds ==
    [][\A w \in Workers :
          ( /\ pc[w] = "ensuring"
            /\ pc'[w] \notin {"ensuring", "crashed"}
            /\ \A t \in missing[w] : targets[t].exists )
              => /\ pc'[w] = "selecting"
                 /\ \A t \in missing[w] : sched'[t].present]_vars

====
